---- MODULE Spec2Model ----
(***************************************************************************)
(* Model of the version package of mops-sdk (src/version/version.go):      *)
(* Parse, Version.String, Version.Compare, Version.IsCompatible and        *)
(* CheckAPICompatibility; of the example executor of the simple plugin     *)
(* (GetActions, Validate, Execute); and of the dispatch of the action      *)
(* registry declared in src/actions/interface.go.                          *)
(*                                                                         *)
(* A Go string is modelled as a sequence of one-character strings, so that *)
(* splitting, joining, decimal conversion and byte-wise comparison are     *)
(* computed the way the library routines compute them.                     *)
(***************************************************************************)
EXTENDS Integers, Sequences, FiniteSets, TLC

VARIABLES
    arg,            \* arg[i], i \in 1..3: the version strings handed to the package
    lo, hi,         \* the minVersion / maxVersion strings handed to IsCompatible
    pc,             \* the next call of the calling sequence
    p,              \* p[i]: the result of Parse(arg[i])
    out,            \* the result of String() on the Version of p[1]
    back,           \* the result of Parse(out)
    cmp,            \* cmp[<<i, j>>]: the result of Compare on the Versions of p[i], p[j]
    gate,           \* gate[i]: the result of CheckAPICompatibility(arg[i])
    compat,         \* compat[i]: the result of IsCompatible(lo, hi) on the Version of p[i]
    actionID,       \* the action id handed to the executor
    params,         \* the parameter bag handed to the executor
    verr,           \* the error Validate(actionID, params) returned
    res,            \* what Execute(actionID, params) returned
    executors,      \* the registry's table: the registered executor ids
    regErr,         \* the error the last RegisterExecutor returned
    call,           \* the ExecuteAction call in flight
    trace,          \* the executor methods that call has invoked, in order
    ret             \* what ExecuteAction returned

versionVars == <<arg, lo, hi, pc, p, out, back, cmp, gate, compat>>

execVars == <<actionID, params, verr, res>>

regVars == <<executors, regErr, call, trace, ret>>

vars == <<versionVars, execVars, regVars>>

(***************************************************************************)
(* Bounds of the checked input sets.                                       *)
(***************************************************************************)
\* every string over ShortAlphabet of at most this length is an input
MaxLen == 6
\* the numbers 0..MaxArg are parameter values, as float64 and as int
MaxArg == 1
\* numeric components 0..MaxNum are inputs (next to 9, 10, 99, 100)
MaxNum == 2
\* patch levels 1..MaxPatch are compared (next to the fixed cores)
MaxPatch == 1

(***************************************************************************)
(* Bytes and strings.                                                      *)
(***************************************************************************)
Digits == <<"0", "1", "2", "3", "4", "5", "6", "7", "8", "9">>

DigitSet == {Digits[i] : i \in 1..10}

\* the value of a decimal digit character
DigitVal(c) == (CHOOSE i \in 1..10 : Digits[i] = c) - 1

\* the byte value of a character, which Go's string comparison orders by
Ord(c) ==
    CASE c = "+" -> 43
      [] c = "-" -> 45
      [] c = "." -> 46
      [] c \in DigitSet -> 48 + DigitVal(c)
      [] c = "a" -> 97
      [] c = "b" -> 98
      [] c = "e" -> 101
      [] c = "t" -> 116
      [] c = "x" -> 120

\* Go's s < t on strings: byte-wise lexicographic, a proper prefix is smaller
RECURSIVE StrLess(_, _)
StrLess(s, t) ==
    IF t = <<>> THEN FALSE
    ELSE IF s = <<>> THEN TRUE
    ELSE IF Ord(Head(s)) # Ord(Head(t)) THEN Ord(Head(s)) < Ord(Head(t))
    ELSE StrLess(Tail(s), Tail(t))

\* strings.Split(s, sep) for a one-byte separator: "" yields one empty piece
RECURSIVE SplitFrom(_, _, _)
SplitFrom(s, sep, cur) ==
    IF s = <<>> THEN <<cur>>
    ELSE IF Head(s) = sep THEN <<cur>> \o SplitFrom(Tail(s), sep, <<>>)
    ELSE SplitFrom(Tail(s), sep, Append(cur, Head(s)))

Split(s, sep) == SplitFrom(s, sep, <<>>)

\* Join that forgets the separator
RECURSIVE JoinNoSep(_, _)
JoinNoSep(parts, sep) ==
    IF parts = <<>> THEN <<>> ELSE parts[1] \o JoinNoSep(Tail(parts), sep)

\* strings.Join(parts, sep)
RECURSIVE Join(_, _)
Join(parts, sep) ==
    IF parts = <<>> THEN <<>>
    ELSE IF Len(parts) = 1 THEN parts[1]
    ELSE parts[1] \o <<sep>> \o Join(Tail(parts), sep)

\* the value of a run of decimal digits
RECURSIVE DigitsVal(_, _)
DigitsVal(s, acc) ==
    IF s = <<>> THEN acc ELSE DigitsVal(Tail(s), 10 * acc + DigitVal(Head(s)))

\* Atoi taking a component without digits for 0
AtoiEmptyIsZero(s) ==
    LET body == IF s # <<>> /\ Head(s) \in {"+", "-"} THEN Tail(s) ELSE s
    IN  IF \A i \in 1..Len(body) : body[i] \in DigitSet
        THEN [ok |-> TRUE,
              val |-> IF s # <<>> /\ Head(s) = "-"
                      THEN 0 - DigitsVal(body, 0) ELSE DigitsVal(body, 0)]
        ELSE [ok |-> FALSE, val |-> 0]

\* strconv.Atoi: an optional sign, then one or more decimal digits
Atoi(s) ==
    LET body == IF s # <<>> /\ Head(s) \in {"+", "-"} THEN Tail(s) ELSE s
    IN  IF body # <<>> /\ \A i \in 1..Len(body) : body[i] \in DigitSet
        THEN [ok |-> TRUE,
              val |-> IF Head(s) = "-"
                      THEN 0 - DigitsVal(body, 0) ELSE DigitsVal(body, 0)]
        ELSE [ok |-> FALSE, val |-> 0]

\* fmt.Sprintf("%d", n)
RECURSIVE ItoaNat(_)
ItoaNat(n) ==
    IF n < 10 THEN <<Digits[n + 1]>>
    ELSE Append(ItoaNat(n \div 10), Digits[(n % 10) + 1])

Itoa(n) == IF n < 0 THEN <<"-">> \o ItoaNat(0 - n) ELSE ItoaNat(n)

(***************************************************************************)
(* The version package.                                                    *)
(***************************************************************************)
MinAPIVersion == <<"1", ".", "0", ".", "0">>
MaxAPIVersion == <<"1", ".", "9", "9", ".", "9", "9">>

\* a Version struct
MkVersion(major, minor, patch, pre, build) ==
    [Major |-> major, Minor |-> minor, Patch |-> patch, Pre |-> pre, Build |-> build]

\* (*Version, error) results: ptr is <<>> for nil, <<v>> for a pointer to v
ParseOk(v) == [st |-> "ok", ptr |-> <<v>>, err |-> ""]
ParseErr(e) == [st |-> "err", ptr |-> <<>>, err |-> e]
NotCalled == [st |-> "none", ptr |-> <<>>, err |-> ""]

Parse(s) ==
    IF s = <<>> THEN ParseErr("version string cannot be empty")
    ELSE
    LET parts == Split(s, "+")
        versionPart == parts[1]
        buildPart == IF Len(parts) > 1 THEN parts[2] ELSE <<>>
        parts2 == Split(versionPart, "-")
        corePart == parts2[1]
        prePart == IF Len(parts2) > 1 THEN Join(Tail(parts2), "-") ELSE <<>>
        coreComponents == Split(corePart, ".")
    IN  IF Len(coreComponents) # 3 THEN ParseErr("invalid version format")
        ELSE
        LET major == Atoi(coreComponents[1])
            minor == Atoi(coreComponents[2])
            patch == Atoi(coreComponents[3])
        IN  IF ~major.ok THEN ParseErr("invalid major version")
            ELSE IF ~minor.ok THEN ParseErr("invalid minor version")
            ELSE IF ~patch.ok THEN ParseErr("invalid patch version")
            ELSE ParseOk(MkVersion(major.val, minor.val, patch.val, prePart, buildPart))

\* String without the build metadata
StringDropBuild(v) ==
    LET core == Itoa(v.Major) \o <<".">> \o Itoa(v.Minor) \o <<".">> \o Itoa(v.Patch)
    IN  IF v.Pre # <<>> THEN core \o <<"-">> \o v.Pre ELSE core

String(v) ==
    LET core == Itoa(v.Major) \o <<".">> \o Itoa(v.Minor) \o <<".">> \o Itoa(v.Patch)
        withPre == IF v.Pre # <<>> THEN core \o <<"-">> \o v.Pre ELSE core
    IN  IF v.Build # <<>> THEN withPre \o <<"+">> \o v.Build ELSE withPre

\* the Version a successful Parse result points to
Deref(r) == r.ptr[1]

\* Compare splitting numeric prerelease identifiers off as numbers (semver precedence)
CompareNumericPre(v, other) ==
    IF v.Major # other.Major THEN (IF v.Major < other.Major THEN -1 ELSE 1)
    ELSE IF v.Minor # other.Minor THEN (IF v.Minor < other.Minor THEN -1 ELSE 1)
    ELSE IF v.Patch # other.Patch THEN (IF v.Patch < other.Patch THEN -1 ELSE 1)
    ELSE IF v.Pre = <<>> /\ other.Pre # <<>> THEN 1
    ELSE IF v.Pre # <<>> /\ other.Pre = <<>> THEN -1
    ELSE IF v.Pre # <<>> /\ other.Pre # <<>>
         THEN LET a == Atoi(v.Pre)
                  b == Atoi(other.Pre)
              IN  IF a.ok /\ b.ok
                  THEN (IF a.val < b.val THEN -1 ELSE IF a.val > b.val THEN 1 ELSE 0)
                  ELSE IF StrLess(v.Pre, other.Pre) THEN -1
                  ELSE IF StrLess(other.Pre, v.Pre) THEN 1
                  ELSE 0
    ELSE 0

\* Compare returning 1 whenever one side is a release, both releases included
CompareReleaseFirst(v, other) ==
    IF v.Major # other.Major THEN (IF v.Major < other.Major THEN -1 ELSE 1)
    ELSE IF v.Minor # other.Minor THEN (IF v.Minor < other.Minor THEN -1 ELSE 1)
    ELSE IF v.Patch # other.Patch THEN (IF v.Patch < other.Patch THEN -1 ELSE 1)
    ELSE IF v.Pre = <<>> THEN 1
    ELSE IF v.Pre # <<>> /\ other.Pre = <<>> THEN -1
    ELSE IF StrLess(v.Pre, other.Pre) THEN -1
    ELSE IF StrLess(other.Pre, v.Pre) THEN 1
    ELSE 0

\* Compare that goes on to order by build metadata
CompareWithBuild(v, other) ==
    IF v.Major # other.Major THEN (IF v.Major < other.Major THEN -1 ELSE 1)
    ELSE IF v.Minor # other.Minor THEN (IF v.Minor < other.Minor THEN -1 ELSE 1)
    ELSE IF v.Patch # other.Patch THEN (IF v.Patch < other.Patch THEN -1 ELSE 1)
    ELSE IF v.Pre = <<>> /\ other.Pre # <<>> THEN 1
    ELSE IF v.Pre # <<>> /\ other.Pre = <<>> THEN -1
    ELSE IF StrLess(v.Pre, other.Pre) THEN -1
    ELSE IF StrLess(other.Pre, v.Pre) THEN 1
    ELSE IF StrLess(v.Build, other.Build) THEN -1
    ELSE IF StrLess(other.Build, v.Build) THEN 1
    ELSE 0

Compare(v, other) ==
    IF v.Major # other.Major THEN (IF v.Major < other.Major THEN -1 ELSE 1)
    ELSE IF v.Minor # other.Minor THEN (IF v.Minor < other.Minor THEN -1 ELSE 1)
    ELSE IF v.Patch # other.Patch THEN (IF v.Patch < other.Patch THEN -1 ELSE 1)
    ELSE IF v.Pre = <<>> /\ other.Pre # <<>> THEN 1
    ELSE IF v.Pre # <<>> /\ other.Pre = <<>> THEN -1
    ELSE IF v.Pre # <<>> /\ other.Pre # <<>>
         THEN (IF StrLess(v.Pre, other.Pre) THEN -1
               ELSE IF StrLess(other.Pre, v.Pre) THEN 1
               ELSE 0)
    ELSE 0

\* (bool, error) results of IsCompatible
CompatResult(val, e) == [st |-> "returned", val |-> val, err |-> e]
CompatNotCalled == [st |-> "none", val |-> FALSE, err |-> ""]

\* IsCompatible with an exclusive upper bound
IsCompatibleExclusiveMax(v, minVersion, maxVersion) ==
    LET min == Parse(minVersion)
        max == Parse(maxVersion)
    IN  IF minVersion # <<>> /\ min.st = "err"
        THEN CompatResult(FALSE, "invalid min version")
        ELSE IF minVersion # <<>> /\ Compare(v, Deref(min)) < 0
        THEN CompatResult(FALSE, "")
        ELSE IF maxVersion # <<>> /\ max.st = "err"
        THEN CompatResult(FALSE, "invalid max version")
        ELSE IF maxVersion # <<>> /\ Compare(v, Deref(max)) >= 0
        THEN CompatResult(FALSE, "")
        ELSE CompatResult(TRUE, "")

IsCompatible(v, minVersion, maxVersion) ==
    LET min == Parse(minVersion)
        max == Parse(maxVersion)
    IN  IF minVersion # <<>> /\ min.st = "err"
        THEN CompatResult(FALSE, "invalid min version")
        ELSE IF minVersion # <<>> /\ Compare(v, Deref(min)) < 0
        THEN CompatResult(FALSE, "")
        ELSE IF maxVersion # <<>> /\ max.st = "err"
        THEN CompatResult(FALSE, "invalid max version")
        ELSE IF maxVersion # <<>> /\ Compare(v, Deref(max)) > 0
        THEN CompatResult(FALSE, "")
        ELSE CompatResult(TRUE, "")

\* CheckAPICompatibility rejecting the maximum itself (>= for >)
CheckAPICompatibilityStrictMax(pluginAPIVersion) ==
    LET pluginVersion == Parse(pluginAPIVersion)
        minVersion == Parse(MinAPIVersion)
        maxVersion == Parse(MaxAPIVersion)
    IN  IF pluginVersion.st = "err" THEN "invalid plugin API version"
        ELSE IF Compare(Deref(pluginVersion), Deref(minVersion)) < 0 THEN "too old"
        ELSE IF Compare(Deref(pluginVersion), Deref(maxVersion)) >= 0 THEN "too new"
        ELSE "nil"

\* the error CheckAPICompatibility returns, "nil" for none
CheckAPICompatibility(pluginAPIVersion) ==
    LET pluginVersion == Parse(pluginAPIVersion)
        minVersion == Parse(MinAPIVersion)
        maxVersion == Parse(MaxAPIVersion)
    IN  IF pluginVersion.st = "err" THEN "invalid plugin API version"
        ELSE IF Compare(Deref(pluginVersion), Deref(minVersion)) < 0 THEN "too old"
        ELSE IF Compare(Deref(pluginVersion), Deref(maxVersion)) > 0 THEN "too new"
        ELSE "nil"

(***************************************************************************)
(* The example executor (SimpleExecutor of the simple plugin).             *)
(*                                                                         *)
(* A value of type interface{} carries its dynamic type; a parameter bag   *)
(* (map[string]interface{}) is a function from the keys present to values. *)
(***************************************************************************)
\* kind is the dynamic type, s the payload of a string, n that of a number or bool
StringVal(s) == [kind |-> "string", s |-> s, n |-> 0]
Float64Val(n) == [kind |-> "float64", s |-> <<>>, n |-> n]
IntVal(n) == [kind |-> "int", s |-> <<>>, n |-> n]
BoolVal(b) == [kind |-> "bool", s |-> <<>>, n |-> IF b THEN 1 ELSE 0]
NilVal == [kind |-> "nil", s |-> <<>>, n |-> 0]

\* _, ok := params[key]
Has(bag, key) == key \in DOMAIN bag

\* _, ok := params[key].(T): a missing key yields nil, which asserts to no type
AssertsTo(bag, key, kind) == Has(bag, key) /\ bag[key].kind = kind

HelloID == <<"h", "e", "l", "l", "o">>
EchoID == <<"e", "c", "h", "o">>
AddID == <<"a", "d", "d">>
World == <<"W", "o", "r", "l", "d">>

\* a ParameterInfo; Default is <<>> when none is declared
Parameter(name, type, required, default) ==
    [Name |-> name, Type |-> type, Required |-> required, Default |-> default]

GetID == "simple-actions"

GetActions ==
    << [ID |-> HelloID,
        Parameters |-> <<Parameter("name", "string", FALSE, <<StringVal(World)>>)>>],
       [ID |-> EchoID,
        Parameters |-> <<Parameter("message", "string", TRUE, <<>>)>>],
       [ID |-> AddID,
        Parameters |-> <<Parameter("a", "number", TRUE, <<>>),
                         Parameter("b", "number", TRUE, <<>>)>>] >>

\* fmt.Sprintf("%.2f", x) of a float64 holding the integer n
Fmt2f(n) == Itoa(n) \o <<".", "0", "0">>

\* (*ActionResult, error) results of Execute
ActionResult(success, message, data) ==
    [Success |-> success, Message |-> message, Data |-> data]

Returned(result) == [st |-> "returned", ptr |-> <<result>>, err |-> "nil"]
Failed(e) == [st |-> "returned", ptr |-> <<>>, err |-> e]
NoResult == [st |-> "none", ptr |-> <<>>, err |-> "nil"]

\* Execute greeting nobody when no name is given
ExecuteNoDefault(id, bag) ==
    IF id = HelloID
    THEN LET name == IF AssertsTo(bag, "name", "string") THEN bag["name"].s ELSE <<>>
         IN  Returned(ActionResult(TRUE, <<"H", "e", "l", "l", "o", ",", " ">> \o name \o <<"!">>,
                                   ("greeting" :> StringVal(name))))
    ELSE Returned(ActionResult(FALSE, <<"U", "n", "k", "n", "o", "w", "n", " ", "a", "c", "t", "i", "o", "n", ":", " ">> \o id, <<>>))

\* Execute reporting an unknown action on the error channel
ExecuteUnknownIsError(id, bag) ==
    IF id = HelloID
    THEN LET name == IF AssertsTo(bag, "name", "string") THEN bag["name"].s ELSE World
         IN  Returned(ActionResult(TRUE, <<"H", "e", "l", "l", "o", ",", " ">> \o name \o <<"!">>,
                                   ("greeting" :> StringVal(name))))
    ELSE IF id = EchoID
    THEN IF ~AssertsTo(bag, "message", "string")
         THEN Returned(ActionResult(FALSE,
                  <<"M", "e", "s", "s", "a", "g", "e", " ", "p", "a", "r", "a", "m", "e", "t", "e", "r", " ", "i", "s", " ", "r", "e", "q", "u", "i", "r", "e", "d", " ", "a", "n", "d", " ", "m", "u", "s", "t", " ", "b", "e", " ", "a", " ", "s", "t", "r", "i", "n", "g">>, <<>>))
         ELSE LET message == bag["message"].s
              IN  Returned(ActionResult(TRUE, <<"E", "c", "h", "o", ":", " ">> \o message,
                      ("original" :> StringVal(message)) @@ ("echo" :> StringVal(message))))
    ELSE IF id = AddID
    THEN IF ~AssertsTo(bag, "a", "float64") \/ ~AssertsTo(bag, "b", "float64")
         THEN Returned(ActionResult(FALSE,
                  <<"B", "o", "t", "h", " ", "'", "a", "'", " ", "a", "n", "d", " ", "'", "b", "'", " ", "p", "a", "r", "a", "m", "e", "t", "e", "r", "s", " ", "a", "r", "e", " ", "r", "e", "q", "u", "i", "r", "e", "d", " ", "a", "n", "d", " ", "m", "u", "s", "t", " ", "b", "e", " ", "n", "u", "m", "b", "e", "r", "s">>, <<>>))
         ELSE LET a == bag["a"].n
                  b == bag["b"].n
                  result == a + b
              IN  Returned(ActionResult(TRUE,
                      Fmt2f(a) \o <<" ", "+", " ">> \o Fmt2f(b) \o <<" ", "=", " ">> \o Fmt2f(result),
                      ("a" :> Float64Val(a)) @@ ("b" :> Float64Val(b))
                          @@ ("result" :> Float64Val(result))))
    ELSE Failed("unknown action")

Execute(id, bag) ==
    IF id = HelloID
    THEN LET name == IF AssertsTo(bag, "name", "string") THEN bag["name"].s ELSE World
         IN  Returned(ActionResult(TRUE, <<"H", "e", "l", "l", "o", ",", " ">> \o name \o <<"!">>,
                                   ("greeting" :> StringVal(name))))
    ELSE IF id = EchoID
    THEN IF ~AssertsTo(bag, "message", "string")
         THEN Returned(ActionResult(FALSE,
                  <<"M", "e", "s", "s", "a", "g", "e", " ", "p", "a", "r", "a", "m", "e", "t", "e", "r", " ", "i", "s", " ", "r", "e", "q", "u", "i", "r", "e", "d", " ", "a", "n", "d", " ", "m", "u", "s", "t", " ", "b", "e", " ", "a", " ", "s", "t", "r", "i", "n", "g">>, <<>>))
         ELSE LET message == bag["message"].s
              IN  Returned(ActionResult(TRUE, <<"E", "c", "h", "o", ":", " ">> \o message,
                      ("original" :> StringVal(message)) @@ ("echo" :> StringVal(message))))
    ELSE IF id = AddID
    THEN IF ~AssertsTo(bag, "a", "float64") \/ ~AssertsTo(bag, "b", "float64")
         THEN Returned(ActionResult(FALSE,
                  <<"B", "o", "t", "h", " ", "'", "a", "'", " ", "a", "n", "d", " ", "'", "b", "'", " ", "p", "a", "r", "a", "m", "e", "t", "e", "r", "s", " ", "a", "r", "e", " ", "r", "e", "q", "u", "i", "r", "e", "d", " ", "a", "n", "d", " ", "m", "u", "s", "t", " ", "b", "e", " ", "n", "u", "m", "b", "e", "r", "s">>, <<>>))
         ELSE LET a == bag["a"].n
                  b == bag["b"].n
                  result == a + b
              IN  Returned(ActionResult(TRUE,
                      Fmt2f(a) \o <<" ", "+", " ">> \o Fmt2f(b) \o <<" ", "=", " ">> \o Fmt2f(result),
                      ("a" :> Float64Val(a)) @@ ("b" :> Float64Val(b))
                          @@ ("result" :> Float64Val(result))))
    ELSE Returned(ActionResult(FALSE, <<"U", "n", "k", "n", "o", "w", "n", " ", "a", "c", "t", "i", "o", "n", ":", " ">> \o id, <<>>))

\* Validate without the type check of echo's message
ValidatePresenceOnly(id, bag) ==
    IF id = HelloID THEN "nil"
    ELSE IF id = EchoID
    THEN IF ~Has(bag, "message") THEN "message parameter is required" ELSE "nil"
    ELSE IF id = AddID
    THEN IF ~Has(bag, "a") THEN "parameter 'a' is required"
         ELSE IF ~Has(bag, "b") THEN "parameter 'b' is required"
         ELSE IF ~AssertsTo(bag, "a", "float64") THEN "parameter 'a' must be a number"
         ELSE IF ~AssertsTo(bag, "b", "float64") THEN "parameter 'b' must be a number"
         ELSE "nil"
    ELSE "unknown action"

\* the error Validate returns, "nil" for none
Validate(id, bag) ==
    IF id = HelloID THEN "nil"
    ELSE IF id = EchoID
    THEN IF ~Has(bag, "message") THEN "message parameter is required"
         ELSE IF ~AssertsTo(bag, "message", "string") THEN "message parameter must be a string"
         ELSE "nil"
    ELSE IF id = AddID
    THEN IF ~Has(bag, "a") THEN "parameter 'a' is required"
         ELSE IF ~Has(bag, "b") THEN "parameter 'b' is required"
         ELSE IF ~AssertsTo(bag, "a", "float64") THEN "parameter 'a' must be a number"
         ELSE IF ~AssertsTo(bag, "b", "float64") THEN "parameter 'b' must be a number"
         ELSE "nil"
    ELSE "unknown action"

(***************************************************************************)
(* The checked inputs.                                                     *)
(***************************************************************************)
\* every string over the alphabet of at most n characters
RECURSIVE StringsUpTo(_, _)
StringsUpTo(alphabet, n) ==
    IF n = 0 THEN {<<>>}
    ELSE LET shorter == StringsUpTo(alphabet, n - 1)
         IN  shorter \cup {Append(s, c) : s \in shorter, c \in alphabet}

ShortAlphabet == {"1", ".", "-", "+"}

ShortStrings == StringsUpTo(ShortAlphabet, MaxLen)

\* numeric components, around the limits 1.0.0 and 1.99.99 of the API window
Nums == (0..MaxNum) \cup {9, 10, 99, 100}

\* components Atoi rejects, or accepts without their being canonical
OddComponents == {<<>>, <<"0", "1">>, <<"a">>, <<"1", "a">>}

\* the components written with a dot between them
RECURSIVE Dotted(_)
Dotted(components) ==
    IF Len(components) = 1 THEN components[1]
    ELSE components[1] \o <<".">> \o Dotted(Tail(components))

NumCores == {Dotted(<<Itoa(a), Itoa(b), Itoa(c)>>) : a \in Nums, b \in Nums, c \in Nums}

OddCores ==
    LET some == OddComponents \cup {<<"1">>}
    IN  {Dotted(<<a>>) : a \in some}
        \cup {Dotted(<<a, b>>) : a \in some, b \in some}
        \cup {Dotted(<<a, b, c>>) : a \in some, b \in some, c \in some}
        \cup {Dotted(<<a, b, c, d>>) : a \in {<<"1">>}, b \in some, c \in some, d \in some}

PreSuffixes ==
    {<<>>, <<"-">>, <<"-", "a">>, <<"-", "a", "-", "b">>, <<"-", "a", ".", "1">>}

BuildSuffixes ==
    {<<>>, <<"+">>, <<"+", "x">>, <<"+", "x", "+", "b">>, <<"+", "x", "-", "b">>}

Inputs ==
    ShortStrings
    \cup {core \o pre \o build :
             core \in NumCores \cup OddCores, pre \in PreSuffixes, build \in BuildSuffixes}

(***************************************************************************)
(* The calling sequences.  Each specification hands strings to the package *)
(* and records what every call returns.                                    *)
(***************************************************************************)
Idle ==
    /\ p = [i \in 1..3 |-> NotCalled]
    /\ out = NotCalled
    /\ back = NotCalled
    /\ cmp = <<>>
    /\ gate = [i \in 1..3 |-> "not called"]
    /\ compat = [i \in 1..3 |-> CompatNotCalled]

\* no call of the executor made yet
ExecIdle ==
    /\ verr = "not called"
    /\ res = NoResult

\* an empty registry, no call of it made yet
RegIdle ==
    /\ executors = {}
    /\ regErr = "not called"
    /\ trace = <<>>
    /\ ret = NoResult

\* the executor and the registry left out of a calling sequence
NoDispatch ==
    /\ actionID = <<>>
    /\ params = <<>>
    /\ call = [executorID |-> "", stage |-> "idle", found |-> FALSE]
    /\ ExecIdle
    /\ RegIdle

\* Parse(s), x.String(), Parse(x.String()) and CheckAPICompatibility(s) of one string
Init ==
    /\ \E s \in Inputs : arg = <<s, <<>>, <<>>>>
    /\ lo = <<>> /\ hi = <<>>
    /\ pc = "parse"
    /\ Idle
    /\ NoDispatch

ParseInput ==
    /\ pc = "parse"
    /\ p' = [p EXCEPT ![1] = Parse(arg[1])]
    /\ pc' = IF Parse(arg[1]).st = "ok" THEN "render" ELSE "gate"
    /\ UNCHANGED <<arg, lo, hi, out, back, cmp, gate, compat, execVars, regVars>>

RenderParsed ==
    /\ pc = "render"
    /\ out' = [st |-> "ok", ptr |-> <<String(Deref(p[1]))>>, err |-> ""]
    /\ pc' = "reparse"
    /\ UNCHANGED <<arg, lo, hi, p, back, cmp, gate, compat, execVars, regVars>>

ReparseRendered ==
    /\ pc = "reparse"
    /\ back' = Parse(Deref(out))
    /\ pc' = "gate"
    /\ UNCHANGED <<arg, lo, hi, p, out, cmp, gate, compat, execVars, regVars>>

GateInput ==
    /\ pc = "gate"
    /\ gate' = [gate EXCEPT ![1] = CheckAPICompatibility(arg[1])]
    /\ pc' = "done"
    /\ UNCHANGED <<arg, lo, hi, p, out, back, cmp, compat, execVars, regVars>>

Next == ParseInput \/ RenderParsed \/ ReparseRendered \/ GateInput

Spec == Init /\ [][Next]_vars

\* versions to order: numeric against lexical components (1.2.0, 1.10.0),
\* numeric against lexical prereleases (10, 2), releases and build metadata
CmpCores ==
    {<<1, 2, 0>>, <<1, 10, 0>>, <<2, 0, 0>>} \cup {<<1, 2, c>> : c \in 1..MaxPatch}

CmpInputs ==
    {Dotted(<<Itoa(c[1]), Itoa(c[2]), Itoa(c[3])>>) \o pre \o build :
        c \in CmpCores,
        pre \in {<<>>, <<"-", "1", "0">>, <<"-", "2">>, <<"-", "a">>},
        build \in {<<>>, <<"+", "x">>}}
    \cup {<<"1", ".", "0", ".", "0">>,
          <<"1", ".", "0", ".", "0", "-", "b", "e", "t", "a">>}

\* the pairs of operands Compare is called on, in calling order
Pairs == <<<<1, 1>>, <<1, 2>>, <<2, 1>>, <<2, 3>>, <<1, 3>>>>

\* versions to admit, at and around the limits of the ranges
CompatCores ==
    {<<0, 9, 0>>, <<1, 0, 0>>, <<1, 2, 0>>, <<1, 99, 99>>, <<2, 0, 0>>}
    \cup {<<1, 2, c>> : c \in 1..MaxPatch}

CompatInputs ==
    {Dotted(<<Itoa(c[1]), Itoa(c[2]), Itoa(c[3])>>) \o pre \o build :
        c \in CompatCores,
        pre \in {<<>>, <<"-", "a">>},
        build \in {<<>>, <<"+", "x">>, <<"+", "b">>}}

\* minVersion / maxVersion strings: absent, well-formed and malformed
BoundStrings ==
    {<<>>,
     <<"1", ".", "0", ".", "0">>,
     <<"1", ".", "2", ".", "0", "-", "a">>,
     <<"1", ".", "2", ".", "0", "+", "x">>,
     <<"2", ".", "0", ".", "0">>,
     <<"1", ".", "2">>,
     <<"1", ".", "x", ".", "0">>}

\* Compare on three parsed versions, pair by pair
InitCmp ==
    /\ arg \in [1..3 -> CmpInputs]
    /\ lo = <<>> /\ hi = <<>>
    /\ pc = "parse operands"
    /\ Idle
    /\ NoDispatch

ParseOperands ==
    /\ pc = "parse operands"
    /\ p' = [i \in 1..3 |-> Parse(arg[i])]
    /\ pc' = IF \A i \in 1..3 : Parse(arg[i]).st = "ok" THEN "compare" ELSE "done"
    /\ UNCHANGED <<arg, lo, hi, out, back, cmp, gate, compat, execVars, regVars>>

CompareNext ==
    /\ pc = "compare"
    /\ LET k == Cardinality(DOMAIN cmp) + 1
           i == Pairs[k][1]
           j == Pairs[k][2]
       IN  /\ cmp' = cmp @@ (Pairs[k] :> Compare(Deref(p[i]), Deref(p[j])))
           /\ pc' = IF k = Len(Pairs) THEN "done" ELSE "compare"
    /\ UNCHANGED <<arg, lo, hi, p, out, back, gate, compat, execVars, regVars>>

NextCmp == ParseOperands \/ CompareNext

SpecCmp == InitCmp /\ [][NextCmp]_vars

\* Compare, IsCompatible and CheckAPICompatibility on two parsed versions
InitCompat ==
    /\ \E a, b \in CompatInputs : arg = <<a, b, <<>>>>
    /\ lo \in BoundStrings
    /\ hi \in BoundStrings
    /\ pc = "parse pair"
    /\ Idle
    /\ NoDispatch

ParsePair ==
    /\ pc = "parse pair"
    /\ p' = [i \in 1..3 |-> IF i = 3 THEN NotCalled ELSE Parse(arg[i])]
    /\ pc' = IF \A i \in 1..2 : Parse(arg[i]).st = "ok" THEN "order" ELSE "done"
    /\ UNCHANGED <<arg, lo, hi, out, back, cmp, gate, compat, execVars, regVars>>

OrderPair ==
    /\ pc = "order"
    /\ cmp' = (<<1, 2>> :> Compare(Deref(p[1]), Deref(p[2])))
    /\ pc' = "range"
    /\ UNCHANGED <<arg, lo, hi, p, out, back, gate, compat, execVars, regVars>>

RangePair ==
    /\ pc = "range"
    /\ compat' = [i \in 1..3 |->
                    IF i = 3 THEN CompatNotCalled
                    ELSE IsCompatible(Deref(p[i]), lo, hi)]
    /\ pc' = "admit"
    /\ UNCHANGED <<arg, lo, hi, p, out, back, cmp, gate, execVars, regVars>>

AdmitPair ==
    /\ pc = "admit"
    /\ gate' = [i \in 1..3 |->
                  IF i = 3 THEN "not called" ELSE CheckAPICompatibility(arg[i])]
    /\ pc' = "done"
    /\ UNCHANGED <<arg, lo, hi, p, out, back, cmp, compat, execVars, regVars>>

NextCompat == ParsePair \/ OrderPair \/ RangePair \/ AdmitPair

SpecCompat == InitCompat /\ [][NextCompat]_vars

\* the version package left out of a calling sequence
NoVersion ==
    /\ arg = <<<<>>, <<>>, <<>>>>
    /\ lo = <<>> /\ hi = <<>>
    /\ pc = "idle"
    /\ Idle

\* action ids: the three declared ones and ids no action has
ActionIDs == {HelloID, EchoID, AddID, <<>>, <<"x">>, <<"H", "e", "l", "l", "o">>}

Keys == {"name", "message", "a", "b"}

\* parameter values of every dynamic type the executor tells apart
Values ==
    {StringVal(<<>>), StringVal(<<"B", "o", "b">>), IntVal(1), BoolVal(TRUE), NilVal}
    \cup {Float64Val(n) : n \in 0..MaxArg}

\* every bag holding some of the keys
Bags == UNION {[present -> Values] : present \in SUBSET Keys}

\* Validate and Execute of one (action id, parameter bag), in either order
\* and each without the other
InitExec ==
    /\ actionID \in ActionIDs
    /\ params \in Bags
    /\ call = [executorID |-> "", stage |-> "idle", found |-> FALSE]
    /\ ExecIdle
    /\ RegIdle
    /\ NoVersion

ValidateCall ==
    /\ verr = "not called"
    /\ verr' = Validate(actionID, params)
    /\ UNCHANGED <<versionVars, actionID, params, res, regVars>>

ExecuteCall ==
    /\ res.st = "none"
    /\ res' = Execute(actionID, params)
    /\ UNCHANGED <<versionVars, actionID, params, verr, regVars>>

NextExec == ValidateCall \/ ExecuteCall

SpecExec == InitExec /\ [][NextExec]_vars

(***************************************************************************)
(* The action registry.  src/actions/interface.go declares ActionRegistry  *)
(* and holds no implementation; the table and the dispatch below follow    *)
(* its description (sections 4.4 and 5): the executor is resolved by id    *)
(* under the registry's lock, the lock is released, and Validate and then  *)
(* Execute are invoked on the resolved executor.  A second registration of *)
(* an id is refused.                                                       *)
(***************************************************************************)
\* executor ids a caller may name: the example executor's and one nobody registers
ExecutorIDs == {GetID, "other"}

\* one invocation of an executor method, as the trace records it
Invocation(op, id, bag, e, result) ==
    [op |-> op, actionID |-> id, params |-> bag, err |-> e, result |-> result]

\* ExecuteAction(executorID, actionID, params) on a registry that is still empty
InitReg ==
    /\ actionID \in ActionIDs
    /\ params \in Bags
    /\ \E id \in ExecutorIDs : call = [executorID |-> id, stage |-> "lookup", found |-> FALSE]
    /\ ExecIdle
    /\ RegIdle
    /\ NoVersion

\* RegisterExecutor(e) of the example executor
RegisterExecutor ==
    /\ IF GetID \in executors
       THEN regErr' = "duplicate id" /\ UNCHANGED executors
       ELSE regErr' = "nil" /\ executors' = executors \cup {GetID}
    /\ UNCHANGED <<versionVars, execVars, call, trace, ret>>

\* ExecuteAction: resolve the executor by id
Lookup ==
    /\ call.stage = "lookup"
    /\ IF call.executorID \in executors
       THEN /\ call' = [call EXCEPT !.stage = "validate", !.found = TRUE]
            /\ UNCHANGED ret
       ELSE /\ call' = [call EXCEPT !.stage = "returned"]
            /\ ret' = Failed("executor not found")
    /\ UNCHANGED <<versionVars, execVars, executors, regErr, trace>>

\* ExecuteAction going on to Execute whatever Validate returned
InvokeValidateIgnoringFailure ==
    /\ call.stage = "validate"
    /\ trace' = Append(trace,
                       Invocation("Validate", actionID, params,
                                  Validate(actionID, params), <<>>))
    /\ call' = [call EXCEPT !.stage = "execute"]
    /\ UNCHANGED <<versionVars, execVars, executors, regErr, ret>>

\* ExecuteAction: call Validate on the resolved executor, return its failure as is
InvokeValidate ==
    /\ call.stage = "validate"
    /\ LET e == Validate(actionID, params)
       IN  /\ trace' = Append(trace, Invocation("Validate", actionID, params, e, <<>>))
           /\ IF e # "nil"
              THEN /\ ret' = Failed(e)
                   /\ call' = [call EXCEPT !.stage = "returned"]
              ELSE /\ call' = [call EXCEPT !.stage = "execute"]
                   /\ UNCHANGED ret
    /\ UNCHANGED <<versionVars, execVars, executors, regErr>>

\* ExecuteAction: call Execute on the resolved executor, return its result
InvokeExecute ==
    /\ call.stage = "execute"
    /\ LET r == Execute(actionID, params)
       IN  /\ trace' = Append(trace, Invocation("Execute", actionID, params, r.err, r.ptr))
           /\ ret' = r
    /\ call' = [call EXCEPT !.stage = "returned"]
    /\ UNCHANGED <<versionVars, execVars, executors, regErr>>

NextReg == RegisterExecutor \/ Lookup \/ InvokeValidate \/ InvokeExecute

SpecReg == InitReg /\ [][NextReg]_vars

(***************************************************************************)
(* Vocabulary of the properties, stated on the strings themselves.         *)
(***************************************************************************)
Str_0_9_0 == <<"0", ".", "9", ".", "0">>
Str_1_0_0 == <<"1", ".", "0", ".", "0">>
Str_2_0_0 == <<"2", ".", "0", ".", "0">>
Str_1_99_99 == <<"1", ".", "9", "9", ".", "9", "9">>

Release(major, minor, patch) == MkVersion(major, minor, patch, <<>>, <<>>)

\* one or more decimal digits
IsNumeral(t) == t # <<>> /\ \A i \in 1..Len(t) : t[i] \in DigitSet

\* a numeral without a leading zero
IsCanonicalNumeral(t) == IsNumeral(t) /\ (Len(t) > 1 => t[1] # "0")

\* a non-empty prerelease or build identifier: digits, letters, "." and "-"
IsIdentifier(t) ==
    t # <<>> /\ \A i \in 1..Len(t) : t[i] \in DigitSet \cup {"a", "b", "e", "t", "x", ".", "-"}

\* t is three numerals (each accepted by ok) with a dot between them
IsCore(t, ok(_)) ==
    \E i, j \in 1..Len(t) :
        /\ i < j
        /\ {k \in 1..Len(t) : t[k] = "."} = {i, j}
        /\ ok(SubSeq(t, 1, i - 1))
        /\ ok(SubSeq(t, i + 1, j - 1))
        /\ ok(SubSeq(t, j + 1, Len(t)))

\* the positions of s holding one of the characters
Positions(s, chars) == {i \in 1..Len(s) : s[i] \in chars}

First(positions) == CHOOSE i \in positions : \A j \in positions : i <= j

\* s up to its first occurrence of one of the characters
BeforeFirst(s, chars) ==
    IF Positions(s, chars) = {} THEN s
    ELSE SubSeq(s, 1, First(Positions(s, chars)) - 1)

\* s after its first occurrence of one of the characters, empty when there is none
AfterFirst(s, chars) ==
    IF Positions(s, chars) = {} THEN <<>>
    ELSE SubSeq(s, First(Positions(s, chars)) + 1, Len(s))

\* the canonical form major.minor.patch[-prerelease][+build]
IsCanonical(s) ==
    LET core == BeforeFirst(s, {"-", "+"})
        tail == SubSeq(s, Len(core) + 1, Len(s))
        pre == BeforeFirst(Tail(tail), {"+"})
        build == AfterFirst(tail, {"+"})
    IN  /\ IsCore(core, IsCanonicalNumeral)
        /\ \/ tail = <<>>
           \/ Head(tail) = "+" /\ IsIdentifier(Tail(tail))
           \/ /\ Head(tail) = "-"
              /\ IsIdentifier(pre)
              /\ Len(pre) + 1 = Len(tail) \/ IsIdentifier(build)

(***************************************************************************)
(* Properties of Parse, String and CheckAPICompatibility (under Spec).     *)
(***************************************************************************)
\* C1: CheckAPICompatibility(s) returns nil exactly when s parses to a version
\* that Compare puts neither below 1.0.0 nor above 1.99.99, the too-old error
\* exactly when Compare puts it below 1.0.0 and the too-new error exactly when
\* Compare puts it above 1.99.99; 0.9.0 is too old, 2.0.0 too new, 1.0.0 accepted.
C1_GateFollowsCompare ==
    gate[1] # "not called" =>
        LET parsed == p[1].st = "ok"
            lower == Compare(Deref(p[1]), Release(1, 0, 0))
            upper == Compare(Deref(p[1]), Release(1, 99, 99))
        IN  /\ gate[1] = "nil" <=> (parsed /\ lower >= 0 /\ upper <= 0)
            /\ gate[1] = "too old" <=> (parsed /\ lower < 0)
            /\ gate[1] = "too new" <=> (parsed /\ upper > 0)
            /\ gate[1] = "invalid plugin API version" <=> ~parsed
            /\ arg[1] = Str_0_9_0 => gate[1] = "too old"
            /\ arg[1] = Str_2_0_0 => gate[1] = "too new"
            /\ arg[1] = Str_1_0_0 => gate[1] = "nil"

C1_Witness == arg[1] = Str_1_99_99 /\ gate[1] = "nil"

\* C2: a string in canonical form parses, and the parsed version renders as
\* that same string, character for character.
C2_CanonicalRoundTrip ==
    IsCanonical(arg[1]) =>
        /\ p[1].st # "none" => p[1].st = "ok"
        /\ out.st # "none" => Deref(out) = arg[1]

C2_Witness ==
    /\ arg[1] = Str_1_0_0 \o <<"-", "a", "-", "b", "+", "x", "-", "b">>
    /\ out.st = "ok"
    /\ Deref(out) = arg[1]

\* C3: whatever string a Version came from, parsing its rendering succeeds and
\* gives back the same Major, Minor, Patch, Pre and Build.
C3_ParsedRoundTrip ==
    back.st # "none" =>
        /\ back.st = "ok"
        /\ Deref(back).Major = Deref(p[1]).Major
        /\ Deref(back).Minor = Deref(p[1]).Minor
        /\ Deref(back).Patch = Deref(p[1]).Patch
        /\ Deref(back).Pre = Deref(p[1]).Pre
        /\ Deref(back).Build = Deref(p[1]).Build

C3_Witness ==
    /\ arg[1] = <<"0", "1", ".", "1", ".", "1", "-", "+", "x", "+", "b">>
    /\ back.st = "ok"
    /\ Deref(back) = MkVersion(1, 1, 1, <<>>, <<"x">>)

\* C7: Parse returns an error and no Version for the empty string, for a core
\* that is not three dot-separated components and for a core component that is
\* not a run of decimal digits; a Version it returns has no negative component.
C7_MalformedRejected ==
    p[1].st # "none" =>
        /\ ~IsCore(BeforeFirst(arg[1], {"-", "+"}), IsNumeral) =>
               /\ p[1].st = "err"
               /\ p[1].ptr = <<>>
               /\ p[1].err # ""
        /\ p[1].st = "ok" =>
               /\ Deref(p[1]).Major >= 0
               /\ Deref(p[1]).Minor >= 0
               /\ Deref(p[1]).Patch >= 0

C7_Witness ==
    /\ arg[1] = <<"1", ".", "-", "1", ".", "1">>
    /\ p[1].st = "err"

\* C8: the build metadata of a parsed version is everything after the first "+"
\* of the input, later "+" included, and the prerelease is everything between
\* the first "-" before that "+" and that "+".
C8_SplitAtFirstPlus ==
    p[1].st = "ok" =>
        /\ Deref(p[1]).Build = AfterFirst(arg[1], {"+"})
        /\ Deref(p[1]).Pre = AfterFirst(BeforeFirst(arg[1], {"+"}), {"-"})

(***************************************************************************)
(* Properties of Compare (under SpecCmp).                                  *)
(***************************************************************************)
Str_1_2_0 == <<"1", ".", "2", ".", "0">>
Str_1_10_0 == <<"1", ".", "1", "0", ".", "0">>
Str_1_0_0_beta == <<"1", ".", "0", ".", "0", "-", "b", "e", "t", "a">>

\* C4: Compare(a,a) is 0, Compare(a,b) is the negation of Compare(b,a),
\* Compare(a,b) <= 0 and Compare(b,c) <= 0 give Compare(a,c) <= 0, and every
\* result is -1, 0 or 1.
C4_CompareTotalOrder ==
    /\ \A pair \in DOMAIN cmp : cmp[pair] \in {-1, 0, 1}
    /\ pc = "done" =>
          /\ cmp[<<1, 1>>] = 0
          /\ cmp[<<1, 2>>] = 0 - cmp[<<2, 1>>]
          /\ (cmp[<<1, 2>>] <= 0 /\ cmp[<<2, 3>>] <= 0) => cmp[<<1, 3>>] <= 0

C4_Witness ==
    /\ pc = "done"
    /\ arg = <<Str_1_2_0 \o <<"-", "1", "0">>, Str_1_2_0 \o <<"-", "2">>, Str_1_2_0>>
    /\ cmp[<<1, 2>>] = -1 /\ cmp[<<2, 3>>] = -1 /\ cmp[<<1, 3>>] = -1

\* the reference ordering: a is below b
RefBelow(a, b) ==
    \/ a.Major < b.Major
    \/ a.Major = b.Major /\ a.Minor < b.Minor
    \/ a.Major = b.Major /\ a.Minor = b.Minor /\ a.Patch < b.Patch
    \/ /\ a.Major = b.Major /\ a.Minor = b.Minor /\ a.Patch = b.Patch
       /\ \/ a.Pre # <<>> /\ b.Pre = <<>>
          \/ a.Pre # <<>> /\ b.Pre # <<>> /\ StrLess(a.Pre, b.Pre)

\* C5: Compare orders by major, then minor, then patch as integers; at equal
\* cores a release is above a prerelease and two prereleases are ordered as
\* whole strings, byte by byte; 1.2.0 is below 1.10.0 and 1.0.0 above 1.0.0-beta.
C5_CompareIsReferenceOrder ==
    <<1, 2>> \in DOMAIN cmp =>
        LET a == Deref(p[1])
            b == Deref(p[2])
        IN  /\ cmp[<<1, 2>>] = -1 <=> RefBelow(a, b)
            /\ cmp[<<1, 2>>] = 1 <=> RefBelow(b, a)
            /\ cmp[<<1, 2>>] = 0 <=> (~RefBelow(a, b) /\ ~RefBelow(b, a))
            /\ (arg[1] = Str_1_2_0 /\ arg[2] = Str_1_10_0) => cmp[<<1, 2>>] = -1
            /\ (arg[1] = Str_1_0_0 /\ arg[2] = Str_1_0_0_beta) => cmp[<<1, 2>>] = 1

C5_Witness ==
    /\ arg[1] = Str_1_2_0 \o <<"-", "2">>
    /\ arg[2] = Str_1_2_0 \o <<"-", "1", "0">>
    /\ <<1, 2>> \in DOMAIN cmp
    /\ cmp[<<1, 2>>] = 1

(***************************************************************************)
(* Properties of IsCompatible and of build metadata (under SpecCompat).    *)
(***************************************************************************)
\* a and b are equal in everything but their build metadata
DifferOnlyInBuild(a, b) ==
    /\ a.Major = b.Major /\ a.Minor = b.Minor /\ a.Patch = b.Patch
    /\ a.Pre = b.Pre
    /\ a.Build # b.Build

\* C6: for two versions that differ only in build metadata Compare returns 0,
\* and IsCompatible and CheckAPICompatibility return the same for both.
C6_BuildIgnored ==
    (pc = "done" /\ DifferOnlyInBuild(Deref(p[1]), Deref(p[2]))) =>
        /\ cmp[<<1, 2>>] = 0
        /\ compat[1] = compat[2]
        /\ gate[1] = gate[2]

C6_Witness ==
    /\ pc = "done"
    /\ arg[1] = Str_1_99_99 \o <<"+", "x">>
    /\ arg[2] = Str_1_99_99 \o <<"+", "b">>
    /\ lo = Str_1_0_0 /\ hi = Str_2_0_0
    /\ cmp[<<1, 2>>] = 0
    /\ compat[1].val /\ compat[2].val
    /\ gate[1] = "nil" /\ gate[2] = "nil"

\* a bound string that is absent or parses
BoundUsable(s) == s = <<>> \/ Parse(s).st = "ok"

\* C9: with bounds that are empty or well-formed, IsCompatible returns true
\* exactly when (min is empty or Compare(v, min) >= 0) and (max is empty or
\* Compare(v, max) <= 0), and no error.
C9_RangeInclusive ==
    (compat[1].st = "returned" /\ BoundUsable(lo) /\ BoundUsable(hi)) =>
        /\ compat[1].err = ""
        /\ compat[1].val <=>
              /\ lo = <<>> \/ Compare(Deref(p[1]), Deref(Parse(lo))) >= 0
              /\ hi = <<>> \/ Compare(Deref(p[1]), Deref(Parse(hi))) <= 0

C9_Witness ==
    /\ arg[1] = Str_2_0_0 \o <<"+", "b">>
    /\ lo = <<>> /\ hi = Str_2_0_0
    /\ compat[1].st = "returned"
    /\ compat[1].val

\* C10: IsCompatible returns an error whenever a non-empty bound is malformed,
\* whatever the version and however it compares with the other bound.
C10_MalformedBoundIsError ==
    (compat[1].st = "returned" /\ (~BoundUsable(lo) \/ ~BoundUsable(hi))) =>
        compat[1].err # ""

(***************************************************************************)
(* Properties of the example executor (under SpecExec).                    *)
(***************************************************************************)
\* the actions GetActions declares
Declared == {GetActions[i] : i \in 1..Len(GetActions)}

IsDeclared(id) == \E action \in Declared : action.ID = id

\* the parameters declared for the action, none for an undeclared one
ParametersOf(id) ==
    UNION {{action.Parameters[i] : i \in 1..Len(action.Parameters)} :
              action \in {a \in Declared : a.ID = id}}

\* the value has the declared type; a number is a float64
TypeMatches(type, value) ==
    \/ type = "string" /\ value.kind = "string"
    \/ type = "number" /\ value.kind = "float64"

MissingRequired(id, bag) ==
    \E q \in ParametersOf(id) : q.Required /\ ~Has(bag, q.Name)

Mismatched(id, bag, among) ==
    \E q \in among : Has(bag, q.Name) /\ ~TypeMatches(q.Type, bag[q.Name])

\* C11: Validate fails exactly when the action id is not declared by GetActions,
\* or a required parameter is absent, or a declared parameter that is present
\* (the optional name of hello included) has a value not of its declared type.
C11_ValidateChecksDeclaration ==
    verr # "not called" =>
        (verr # "nil" <=>
            \/ ~IsDeclared(actionID)
            \/ MissingRequired(actionID, params)
            \/ Mismatched(actionID, params, ParametersOf(actionID)))

\* C12: Execute, called with or without Validate, returns a result and no
\* error; for an undeclared action id, or a required parameter absent or not of
\* its declared type, the result has success false and a non-empty message.
C12_ExecuteDefensive ==
    res.st = "returned" =>
        /\ res.ptr # <<>>
        /\ res.err = "nil"
        /\ (\/ ~IsDeclared(actionID)
            \/ MissingRequired(actionID, params)
            \/ Mismatched(actionID, params,
                          {q \in ParametersOf(actionID) : q.Required}))
           => (~Deref(res).Success /\ Deref(res).Message # <<>>)

C12_Witness ==
    /\ actionID = AddID
    /\ params = ("a" :> IntVal(1)) @@ ("b" :> Float64Val(1))
    /\ verr = "not called"
    /\ res.st = "returned"
    /\ ~Deref(res).Success

\* the default GetActions declares for hello's name
HelloDefault == (CHOOSE q \in ParametersOf(HelloID) : q.Name = "name").Default[1]

\* C13: Execute("hello") without a name key succeeds with message
\* "Hello, World!" and data {greeting: "World"}, "World" being the default
\* GetActions declares for name; with name a string s it succeeds with message
\* "Hello, s!" and data {greeting: s}.
C13_HelloUsesDefault ==
    (res.st = "returned" /\ actionID = HelloID) =>
        /\ ~Has(params, "name") =>
              /\ Deref(res).Success
              /\ Deref(res).Message = <<"H", "e", "l", "l", "o", ",", " ", "W", "o", "r", "l", "d", "!">>
              /\ Deref(res).Message = <<"H", "e", "l", "l", "o", ",", " ">> \o HelloDefault.s \o <<"!">>
              /\ Deref(res).Data = ("greeting" :> HelloDefault)
              /\ HelloDefault = StringVal(<<"W", "o", "r", "l", "d">>)
        /\ AssertsTo(params, "name", "string") =>
              /\ Deref(res).Success
              /\ Deref(res).Message = <<"H", "e", "l", "l", "o", ",", " ">> \o params["name"].s \o <<"!">>
              /\ Deref(res).Data = ("greeting" :> params["name"])

C13_Witness ==
    /\ actionID = HelloID
    /\ params = ("message" :> StringVal(<<"B", "o", "b">>))
    /\ res.st = "returned"
    /\ Deref(res).Message = <<"H", "e", "l", "l", "o", ",", " ", "W", "o", "r", "l", "d", "!">>

\* C15: Validate returns nil exactly when Execute returns success true.
C15_ValidateAgreesWithExecute ==
    (verr # "not called" /\ res.st = "returned") =>
        (verr = "nil" <=> Deref(res).Success)

C15_Witness ==
    /\ actionID = HelloID
    /\ params = ("name" :> IntVal(1))
    /\ verr = "nil"
    /\ res.st = "returned"
    /\ Deref(res).Success

(***************************************************************************)
(* Properties of the registry's dispatch (under SpecReg).                  *)
(***************************************************************************)
\* C14: ExecuteAction on an executor id that is not registered fails with
\* executor-not-found and invokes nothing; on a registered one it invokes
\* Validate first, returns a Validate failure unchanged without invoking
\* Execute, and invokes Execute only after Validate returned nil for the same
\* action id and parameters, returning Execute's result.
C14_LookupValidateExecute ==
    /\ call.found => call.executorID \in executors
    /\ Len(trace) <= 2
    /\ \A i \in 1..Len(trace) :
          /\ trace[i].actionID = actionID /\ trace[i].params = params
          /\ trace[i].op = IF i = 1 THEN "Validate" ELSE "Execute"
          /\ i = 2 => trace[1].err = "nil"
    /\ trace # <<>> => call.found
    /\ call.stage = "returned" =>
          IF ~call.found
          THEN trace = <<>> /\ ret = Failed("executor not found")
          ELSE IF trace[1].err # "nil"
          THEN Len(trace) = 1 /\ ret = Failed(trace[1].err)
          ELSE Len(trace) = 2 /\ ret.ptr = trace[2].result /\ ret.err = trace[2].err

C14_Witness ==
    /\ call.stage = "returned"
    /\ call.executorID = GetID
    /\ actionID = AddID
    /\ regErr = "duplicate id"
    /\ Len(trace) = 2
    /\ ret.st = "returned"
    /\ Deref(ret).Success

====
